---- MODULE Spec2Model ----
(***************************************************************************)
(* Reference and citation management of the PRISMA 2020 writing tool:      *)
(* ReferenceManager (src/reference_manager.py) together with the section   *)
(* text map that the application (src/app.py) owns and hands to the        *)
(* renumbering operation.                                                  *)
(*                                                                         *)
(* A section text is a sequence of pieces.  A piece is either a citation   *)
(* token, i.e. a maximal match of the citation pattern (a bracket pair     *)
(* around one or more comma-separated digit runs) carrying the integers    *)
(* written in it in the order written, or a literal chunk of text that     *)
(* holds no match of that pattern.                                         *)
(***************************************************************************)
EXTENDS Integers, Sequences, FiniteSets, TLC

\* ------------------------------------------------------------------ bounds
MaxRefs == 3        \* longest reference list explored
MaxCites == 3       \* most entries of the per-section citation lists
MaxStored == 2      \* longest reference list where the adds may fail
MaxStoredCites == 1 \* most citation list entries there

\* ids are handed out as list length + 1, so they never exceed MaxRefs
Ids == 1..MaxRefs

\* -------------------------------------------------------------- vocabulary
\* the hard-wired preferred scan order of reorder_references_by_citation
section_order == <<"Título", "Resumo", "Introdução", "Métodos", "Resultados",
                   "Discussão", "Conclusão", "Referências">>

\* the keys of st.session_state.section_content, in dict order
SECTIONS == <<"Introdução - Justificativa", "Resultados">>

\* formatted strings produced by format_manual_vancouver / format_vancouver
ManualFormatted == {"m"}
DoiFormatted == {"d"}

Token(ids) == [tok |-> TRUE, ids |-> ids, lit |-> ""]
Literal(s) == [tok |-> FALSE, ids |-> <<>>, lit |-> s]

\* what a user types into a section
Typed == {
    <<>>,
    \* "see [3]"
    <<Literal("see "), Token(<<3>>)>>,
    \* "[2,1] or [abc]"
    <<Token(<<2, 1>>), Literal(" or [abc]")>> }

EmptyMap == [x \in {} |-> 0]

\* a match whose digit runs are written with leading zeros, as in "[02,01]":
\* int() reads the same ids, the text differs from the f-string rendering
Padded(ids) == [tok |-> TRUE, ids |-> ids, lit |-> "0"]

\* section texts handed to update_citations_in_text
Written == Typed \cup {
    \* "[1] [2]"
    <<Token(<<1>>), Literal(" "), Token(<<2>>)>>,
    \* "[2,2] [1,] [1"
    <<Token(<<2, 2>>), Literal(" [1,] [1")>>,
    \* "[01,03]"
    <<Padded(<<1, 3>>)>>,
    \* "(1) [1,3]"
    <<Literal("(1) "), Token(<<1, 3>>)>> }

\* the ids written in those texts
WrittenIds ==
    UNION {UNION {{t[j].ids[p] : p \in 1..Len(t[j].ids)} : j \in 1..Len(t)} :
           t \in Written}

\* the id_mapping arguments handed to update_citations_in_text: any mapping
\* of some of the written ids, injective or not
IdMaps == UNION {[D -> WrittenIds] : D \in SUBSET WrittenIds}

\* ------------------------------------------------------------------- state
VARIABLES references,       \* ReferenceManager.references: list of records
          citations,        \* ReferenceManager.citations: section -> ids
          citation_order,   \* ReferenceManager.citation_order
          section_content,  \* session_state.section_content, in key order
          lastOp,           \* the operation that returned last
          ret               \* its argument or what it returned

vars == <<references, citations, citation_order, section_content,
          lastOp, ret>>

\* ------------------------------------------------------- sequence helpers
Contains(s, x) == \E i \in 1..Len(s) : s[i] = x

\* list.remove(x): drops the first occurrence only
RemoveFirst(s, x) ==
    IF ~Contains(s, x) THEN s
    ELSE LET i == CHOOSE k \in 1..Len(s) :
                      s[k] = x /\ \A j \in 1..(k - 1) : s[j] # x
         IN  SubSeq(s, 1, i - 1) \o SubSeq(s, i + 1, Len(s))

RECURSIVE SumLens(_, _)
SumLens(f, dom) ==
    IF dom = {} THEN 0
    ELSE LET k == CHOOSE k \in dom : TRUE
         IN  Len(f[k]) + SumLens(f, dom \ {k})

\* new_ids.sort() on a list of integers
SortIds(s) == SortSeq(s, LAMBDA a, b : a < b)

RefIds(refs) == {refs[i].id : i \in 1..Len(refs)}

\* ---------------------------------------------------- reference look-ups
\* position of the record get_reference_by_id returns, 0 for None
get_reference_by_id(refs, ref_id) ==
    IF \E i \in 1..Len(refs) : refs[i].id = ref_id
    THEN CHOOSE i \in 1..Len(refs) :
             refs[i].id = ref_id /\ \A j \in 1..(i - 1) : refs[j].id # ref_id
    ELSE 0

RECURSIVE InsertById(_, _)
InsertById(sorted, r) ==
    IF sorted = <<>> THEN <<r>>
    ELSE IF r.id < Head(sorted).id THEN <<r>> \o sorted
         ELSE <<Head(sorted)>> \o InsertById(Tail(sorted), r)

RECURSIVE get_all_references(_)
\* sorted(self.references, key=id): stable
get_all_references(refs) ==
    IF refs = <<>> THEN <<>>
    ELSE InsertById(get_all_references(SubSeq(refs, 1, Len(refs) - 1)),
                    refs[Len(refs)])

\* -------------------------------------------------------------------- Init
Init ==
    /\ references = <<>>
    /\ citations = EmptyMap
    /\ citation_order = <<>>
    /\ section_content = [i \in 1..Len(SECTIONS) |->
                             [name |-> SECTIONS[i], text |-> <<>>]]
    /\ lastOp = "init"
    /\ ret = [kind |-> "none"]

\* ---------------------------------------------------------- adding
\* 'id': len(self.references) + 1
NewId(refs) == Len(refs) + 1

add_reference(f, type) ==
    /\ Len(references) < MaxRefs
    /\ references' = Append(references,
           [id |-> NewId(references), formatted |-> f, type |-> type])
    /\ ret' = [kind |-> "id", id |-> NewId(references)]
    /\ UNCHANGED <<citations, citation_order, section_content>>

\* add_manual_reference with all required fields present
AddManualReference ==
    \E f \in ManualFormatted :
        /\ add_reference(f, "manual")
        /\ lastOp' = "add_manual_reference"

\* add_reference_from_doi when the lookup returned metadata
AddReferenceFromDoi ==
    \E f \in DoiFormatted :
        /\ add_reference(f, "doi")
        /\ lastOp' = "add_reference_from_doi"

\* -------------------------------------------------------- removing
\* a removal that renumbers the references left so that no id is skipped
remove_from_references_closing_gap(refs, ref_id) ==
    LET left == SelectSeq(refs, LAMBDA r : r.id # ref_id)
    IN  [i \in 1..Len(left) |-> [left[i] EXCEPT !.id = i]]

\* self.references = [ref for ref in self.references if ref['id'] != ref_id]
remove_from_references(refs, ref_id) ==
    SelectSeq(refs, LAMBDA r : r.id # ref_id)

\* for section, ref_list in self.citations.items(): drop ref_id
remove_from_citations(cit, ref_id) ==
    [s \in DOMAIN cit |-> SelectSeq(cit[s], LAMBDA rid : rid # ref_id)]

\* a removal that forgets the global order
remove_from_citation_order_forgotten(order, ref_id) == order

\* if ref_id in self.citation_order: self.citation_order.remove(ref_id)
remove_from_citation_order(order, ref_id) == RemoveFirst(order, ref_id)

RemoveReference ==
    \E ref_id \in Ids :
        /\ references' = remove_from_references(references, ref_id)
        /\ citations' = remove_from_citations(citations, ref_id)
        /\ citation_order' = remove_from_citation_order(citation_order, ref_id)
        /\ ret' = [kind |-> "bool", val |-> TRUE, arg |-> ref_id,
                   present |-> ref_id \in RefIds(references),
                   cited |-> Cardinality({s \in DOMAIN citations :
                                             Contains(citations[s], ref_id)})]
        /\ lastOp' = "remove_reference"
        /\ UNCHANGED section_content

\* ---------------------------------------------------------- citing
\* an add_citation that appends without looking at the section's list
add_citation_citations_appending(cit, section_name, ref_id) ==
    LET init == IF section_name \in DOMAIN cit THEN cit
                ELSE [s \in DOMAIN cit \cup {section_name} |->
                         IF s = section_name THEN <<>> ELSE cit[s]]
    IN  [init EXCEPT ![section_name] = Append(@, ref_id)]

\* self.citations after add_citation(section_name, ref_id)
add_citation_citations(cit, section_name, ref_id) ==
    LET init == IF section_name \in DOMAIN cit THEN cit
                ELSE [s \in DOMAIN cit \cup {section_name} |->
                         IF s = section_name THEN <<>> ELSE cit[s]]
    IN  IF Contains(init[section_name], ref_id) THEN init
        ELSE [init EXCEPT ![section_name] = Append(@, ref_id)]

\* an add_citation that records the id in the section list only
add_citation_order_untracked(order, ref_id) == order

\* an add_citation that moves a cited id to the end of the global order
add_citation_order_latest(order, ref_id) ==
    Append(SelectSeq(order, LAMBDA rid : rid # ref_id), ref_id)

\* self.citation_order after add_citation(section_name, ref_id)
add_citation_order(order, ref_id) ==
    IF Contains(order, ref_id) THEN order ELSE Append(order, ref_id)

SectionNames == {section_content[i].name : i \in 1..Len(section_content)}

WithinCites(cit) == SumLens(cit, DOMAIN cit) <= MaxCites

AddCitation ==
    \E section_name \in SectionNames, ref_id \in Ids :
        /\ citations' = add_citation_citations(citations, section_name, ref_id)
        /\ WithinCites(citations')
        /\ citation_order' = add_citation_order(citation_order, ref_id)
        /\ ret' = [kind |-> "none"]
        /\ lastOp' = "add_citation"
        /\ UNCHANGED <<references, section_content>>

\* the text area: session_state.section_content[current_section] = content
EditText ==
    \E i \in 1..Len(section_content), content \in Typed :
        /\ section_content' = [section_content EXCEPT ![i].text = content]
        /\ ret' = [kind |-> "none"]
        /\ lastOp' = "edit_text"
        /\ UNCHANGED <<references, citations, citation_order>>

\* ------------------------------------------------------- renumbering
Keys(sc) == [i \in 1..Len(sc) |-> sc[i].name]

\* a scan order whose remaining names come in the reverse of the dict order
full_section_order_rest_reversed(sc) ==
    LET rest == SelectSeq(Keys(sc), LAMBDA n : ~Contains(section_order, n))
    IN  section_order \o [i \in 1..Len(rest) |-> rest[Len(rest) + 1 - i]]

\* section_order after "for section in all_sections: if section not in
\* section_order: section_order.append(section)"
full_section_order(sc) ==
    section_order \o
    SelectSeq(Keys(sc), LAMBDA n : ~Contains(section_order, n))

\* sections_content[section_name]
text_of(sc, section_name) ==
    sc[CHOOSE i \in 1..Len(sc) : sc[i].name = section_name].text

RECURSIVE findall(_)
\* re.findall of the citation pattern followed by the int() conversion of
\* each match: the id lists of the tokens, left to right
findall(text) ==
    IF text = <<>> THEN <<>>
    ELSE IF Head(text).tok THEN <<Head(text).ids>> \o findall(Tail(text))
         ELSE findall(Tail(text))

RECURSIVE scan_ids(_, _)
\* for ref_id in ref_ids: if ref_id not in citation_order: append
scan_ids(order, ref_ids) ==
    IF ref_ids = <<>> THEN order
    ELSE scan_ids(IF Contains(order, Head(ref_ids)) THEN order
                  ELSE Append(order, Head(ref_ids)),
                  Tail(ref_ids))

RECURSIVE scan_tokens(_, _)
\* for citation in citations: ...
scan_tokens(order, tokens) ==
    IF tokens = <<>> THEN order
    ELSE scan_tokens(scan_ids(order, Head(tokens)), Tail(tokens))

RECURSIVE scan_sections(_, _, _)
\* for section_name in section_order: if section_name in sections_content
scan_sections(order, names, sc) ==
    IF names = <<>> THEN order
    ELSE scan_sections(
             IF Contains(Keys(sc), Head(names))
             THEN scan_tokens(order, findall(text_of(sc, Head(names))))
             ELSE order,
             Tail(names), sc)

\* a scan that reads the sections in the order of the dict keys
text_citation_order_by_key(sc) == scan_sections(<<>>, Keys(sc), sc)

\* the local citation_order of reorder_references_by_citation
text_citation_order(sc) == scan_sections(<<>>, full_section_order(sc), sc)

\* id_mapping[k] = v
Assign(m, k, v) ==
    [x \in DOMAIN m \cup {k} |-> IF x = k THEN v ELSE m[x]]

\* new_ref = ref.copy(); new_ref['id'] = new_id
Renumbered(ref, new_id) == [ref EXCEPT !.id = new_id]

RECURSIVE map_cited(_, _, _)
\* "First, add references that appear in text": acc holds id_mapping,
\* new_references and new_id
map_cited(acc, order, refs) ==
    IF order = <<>> THEN acc
    ELSE LET old_id == Head(order)
             i == get_reference_by_id(refs, old_id)
         IN  map_cited(
                 IF i # 0
                 THEN [id_mapping |-> Assign(acc.id_mapping, old_id, acc.new_id),
                       new_references |->
                           Append(acc.new_references,
                                  Renumbered(refs[i], acc.new_id)),
                       new_id |-> acc.new_id + 1]
                 ELSE acc,
                 Tail(order), refs)

RECURSIVE map_uncited(_, _, _)
\* "Then add uncited references": for ref in self.references
map_uncited(acc, refs, order) ==
    IF refs = <<>> THEN acc
    ELSE LET ref == Head(refs)
         IN  map_uncited(
                 IF ~Contains(order, ref.id)
                 THEN [id_mapping |-> Assign(acc.id_mapping, ref.id, acc.new_id),
                       new_references |->
                           Append(acc.new_references,
                                  Renumbered(ref, acc.new_id)),
                       new_id |-> acc.new_id + 1]
                 ELSE acc,
                 Tail(refs), order)

\* a renumbering that takes the order of first citation from the tracked
\* global order of the Citation Index instead of scanning the texts
compute_reorder_tracked(sc, refs) ==
    LET start == [id_mapping |-> EmptyMap, new_references |-> <<>>,
                  new_id |-> 1]
    IN  map_uncited(map_cited(start, citation_order, refs), refs,
                    citation_order)

\* id_mapping and new_references as computed from the texts and the list
compute_reorder(sc, refs) ==
    LET order == text_citation_order(sc)
        start == [id_mapping |-> EmptyMap, new_references |-> <<>>,
                  new_id |-> 1]
    IN  map_uncited(map_cited(start, order, refs), refs, order)

\* a remap that lists the new ids in ascending order, the order of the text
remap_sorted(ref_list, id_mapping) ==
    LET mapped == SelectSeq(ref_list, LAMBDA x : x \in DOMAIN id_mapping)
    IN  SortIds([i \in 1..Len(mapped) |-> id_mapping[mapped[i]]])

RECURSIVE remap(_, _)
\* [id_mapping[old_id] for old_id in ref_list if old_id in id_mapping]
remap(ref_list, id_mapping) ==
    IF ref_list = <<>> THEN <<>>
    ELSE LET rest == remap(Tail(ref_list), id_mapping)
         IN  IF Head(ref_list) \in DOMAIN id_mapping
             THEN <<id_mapping[Head(ref_list)]>> \o rest
             ELSE rest

\* a rewrite that sorts the ids of a match but never maps them
replace_citation_unmapped(ref_ids, id_mapping) == SortIds(ref_ids)

\* a rewrite that sends each new id through the mapping once more, as
\* replacing one id after the other in the text would
replace_citation_chained(ref_ids, id_mapping) ==
    LET once == [i \in 1..Len(ref_ids) |->
                    IF ref_ids[i] \in DOMAIN id_mapping
                    THEN id_mapping[ref_ids[i]] ELSE ref_ids[i]]
    IN  SortIds([i \in 1..Len(once) |->
                    IF once[i] \in DOMAIN id_mapping
                    THEN id_mapping[once[i]] ELSE once[i]])

\* a rewrite that writes the new ids in the order of the old ones
replace_citation_unsorted(ref_ids, id_mapping) ==
    [i \in 1..Len(ref_ids) |->
        IF ref_ids[i] \in DOMAIN id_mapping
        THEN id_mapping[ref_ids[i]] ELSE ref_ids[i]]

\* a rewrite that writes the new ids of a match from the largest down
replace_citation_descending(ref_ids, id_mapping) ==
    SortSeq([i \in 1..Len(ref_ids) |->
                IF ref_ids[i] \in DOMAIN id_mapping
                THEN id_mapping[ref_ids[i]] ELSE ref_ids[i]],
            LAMBDA a, b : a > b)

\* a rewrite that renders the set of the new ids
replace_citation_as_set(ref_ids, id_mapping) ==
    LET new_ids == {IF ref_ids[i] \in DOMAIN id_mapping
                    THEN id_mapping[ref_ids[i]] ELSE ref_ids[i] :
                        i \in 1..Len(ref_ids)}
    IN  SortIds(CHOOSE s \in [1..Cardinality(new_ids) -> new_ids] :
                    {s[i] : i \in 1..Cardinality(new_ids)} = new_ids)

\* the ids replace_citation writes for one match
replace_citation(ref_ids, id_mapping) ==
    SortIds([i \in 1..Len(ref_ids) |->
                IF ref_ids[i] \in DOMAIN id_mapping
                THEN id_mapping[ref_ids[i]] ELSE ref_ids[i]])

\* a rewrite that joins the rewritten matches and drops the text between
sub_text_matches_only(text, id_mapping) ==
    LET matches == SelectSeq(text, LAMBDA piece : piece.tok)
    IN  [i \in 1..Len(matches) |->
            Token(replace_citation(matches[i].ids, id_mapping))]

\* re.sub over one text: every match is replaced, the rest is kept
sub_text(text, id_mapping) ==
    [i \in 1..Len(text) |->
        IF text[i].tok THEN Token(replace_citation(text[i].ids, id_mapping))
        ELSE text[i]]

\* updated_content, then section_content.update(updated_content)
update_citations_in_text(sc, id_mapping) ==
    [i \in 1..Len(sc) |->
        [name |-> sc[i].name, text |-> sub_text(sc[i].text, id_mapping)]]

\* the ids of the scan for which "ref = self.get_reference_by_id(old_id)"
\* finds nothing: they get no new id
skipped_ids(sc, refs) ==
    LET order == text_citation_order(sc)
    IN  {order[i] : i \in {k \in 1..Len(order) :
                               get_reference_by_id(refs, order[k]) = 0}}

\* the reorder button: reorder_references_by_citation(section_content) and,
\* when the returned mapping is truthy, the rewrite of every section text
Reorder ==
    /\ lastOp' = "reorder"
    /\ IF section_content = <<>>
       THEN /\ ret' = [kind |-> "none"]
            /\ UNCHANGED <<references, citations, citation_order,
                           section_content>>
       ELSE LET r == compute_reorder(section_content, references)
                m == r.id_mapping
            IN  /\ references' = r.new_references
                /\ citations' = [s \in DOMAIN citations |->
                                    remap(citations[s], m)]
                /\ citation_order' = remap(citation_order, m)
                /\ ret' = [kind |-> "map", map |-> m,
                           skipped |-> skipped_ids(section_content,
                                                   references)]
                /\ section_content' =
                       IF m # EmptyMap
                       THEN update_citations_in_text(section_content, m)
                       ELSE section_content

\* update_citations_in_text called with any mapping; the caller stores the
\* returned texts with section_content.update(updated_content)
UpdateCitationsInText ==
    \E id_mapping \in IdMaps :
        /\ section_content' =
               update_citations_in_text(section_content, id_mapping)
        /\ ret' = [kind |-> "text", map |-> id_mapping,
                   input |-> section_content]
        /\ lastOp' = "update_citations_in_text"
        /\ UNCHANGED <<references, citations, citation_order>>

\* a session whose sections already hold text
InitWritten ==
    /\ references = <<>>
    /\ citations = EmptyMap
    /\ citation_order = <<>>
    /\ section_content \in
           {[i \in 1..Len(SECTIONS) |-> [name |-> SECTIONS[i], text |-> t[i]]] :
               t \in [1..Len(SECTIONS) -> Written]}
    /\ lastOp = "init"
    /\ ret = [kind |-> "none"]

\* ------------------------------------------- adding, with any arguments
\* a required field of add_manual_reference as the form hands it over
Fields == {"", "x"}

\* a validation that forgets the year
manual_fields_missing_but_year(authors, title, journal, year) ==
    authors = "" \/ title = "" \/ journal = ""

\* if not authors or not title or not journal or not year
manual_fields_missing(authors, title, journal, year) ==
    authors = "" \/ title = "" \/ journal = "" \/ year = ""

\* add_manual_reference(authors, title, journal, year): None and nothing
\* touched when a required field is empty, else the append
AddManualReferenceCall ==
    \E authors \in Fields, title \in Fields, journal \in Fields,
       year \in Fields, f \in ManualFormatted :
        /\ lastOp' = "add_manual_reference"
        /\ IF manual_fields_missing(authors, title, journal, year)
           THEN /\ ret' = [kind |-> "none", authors |-> authors,
                           title |-> title, journal |-> journal,
                           year |-> year]
                /\ UNCHANGED <<references, citations, citation_order,
                               section_content>>
           ELSE /\ Len(references) < MaxRefs
                /\ references' = Append(references,
                       [id |-> NewId(references), formatted |-> f,
                        type |-> "manual"])
                /\ ret' = [kind |-> "id", id |-> NewId(references),
                           authors |-> authors, title |-> title,
                           journal |-> journal, year |-> year]
                /\ UNCHANGED <<citations, citation_order, section_content>>

\* the doi argument of add_reference_from_doi: empty, blank, a DOI
Dois == {"", " ", "10.1000/x"}

\* what fetch_metadata_from_crossref returns: the message of a 200 answer,
\* or None after another status, a timeout or a network error
Lookups == {"metadata", "status", "timeout", "error"}

\* doi.strip()
strip(doi) == IF doi = " " THEN "" ELSE doi

\* "if not clean_doi: return None" and "if metadata: ... else: return None"
doi_lookup_failed(doi, lookup) == strip(doi) = "" \/ lookup # "metadata"

\* add_reference_from_doi(doi) with any outcome of the lookup
AddReferenceFromDoiCall ==
    \E doi \in Dois, lookup \in Lookups, f \in DoiFormatted :
        /\ lastOp' = "add_reference_from_doi"
        /\ IF doi_lookup_failed(doi, lookup)
           THEN /\ ret' = [kind |-> "none", doi |-> doi, lookup |-> lookup]
                /\ UNCHANGED <<references, citations, citation_order,
                               section_content>>
           ELSE /\ Len(references) < MaxRefs
                /\ references' = Append(references,
                       [id |-> NewId(references), formatted |-> f,
                        type |-> "doi"])
                /\ ret' = [kind |-> "id", id |-> NewId(references),
                           doi |-> doi, lookup |-> lookup]
                /\ UNCHANGED <<citations, citation_order, section_content>>

\* the mappings a renumbering of all the written ids yields
Renumberings ==
    {m \in [WrittenIds -> WrittenIds] :
        \A x, y \in WrittenIds : m[x] = m[y] => x = y}

\* get_citation_summary(): reads the lists, returns the statistics
GetCitationSummary ==
    /\ ret' = [kind |-> "summary",
               total_citations |-> SumLens(citations, DOMAIN citations),
               unique_references_cited |->
                   Cardinality(UNION {{citations[s][i] :
                                          i \in 1..Len(citations[s])} :
                                      s \in DOMAIN citations}),
               total_references |-> Len(references),
               sections_with_citations |->
                   Cardinality({s \in DOMAIN citations :
                                   citations[s] # <<>>})]
    /\ lastOp' = "get_citation_summary"
    /\ UNCHANGED <<references, citations, citation_order, section_content>>

\* --------------------------------------------------- saving and loading
\* export_data of the export tab, written by export_to_json and read back by
\* import_from_json: strings, integers, lists and dicts come back as written
export_data(sc, refs, cit) ==
    [sections |-> sc, references |-> get_all_references(refs),
     citations |-> cit]

\* project files a user may upload: a file with the two required keys and
\* nothing in them, and the exports of two sessions
Projects == {
    export_data(<<>>, <<>>, EmptyMap),
    export_data([i \in 1..Len(SECTIONS) |->
                    [name |-> SECTIONS[i], text |-> <<>>]],
                <<[id |-> 1, formatted |-> "m", type |-> "manual"]>>,
                EmptyMap),
    export_data(<<[name |-> SECTIONS[1],
                   text |-> <<Literal("see "), Token(<<2>>)>>],
                  [name |-> SECTIONS[2],
                   text |-> <<Token(<<2, 1>>), Literal(" or [abc]")>>]>>,
                <<[id |-> 1, formatted |-> "m", type |-> "manual"],
                  [id |-> 2, formatted |-> "m", type |-> "manual"]>>,
                (SECTIONS[2] :> <<1, 2>>)) }

\* the project uploader of the sidebar: sections, references and the section
\* citation lists are replaced by those of the file
LoadProject ==
    \E imported_data \in Projects :
        /\ section_content' = imported_data.sections
        /\ references' = imported_data.references
        /\ citations' = imported_data.citations
        /\ ret' = [kind |-> "project", data |-> imported_data]
        /\ lastOp' = "load_project"
        /\ UNCHANGED citation_order

\* ------------------------------------------------- sessions to reorder
\* the keys of section_content in dict order: some sections of the app in the
\* order of SECTIONS, and the sections of a loaded file in another order
ScanKeys == {
    <<"Introdução - Justificativa", "Resultados", "Registro e Protocolo",
      "Financiamento">>,
    <<"Financiamento", "Discussão", "Resultados", "Registro e Protocolo">> }

\* "", "[1]" and "[2]"
ScanTexts == {<<>>, <<Token(<<1>>)>>, <<Token(<<2>>)>>}

\* a session whose sections hold text and no reference yet
InitScan ==
    /\ references = <<>>
    /\ citations = EmptyMap
    /\ citation_order = <<>>
    /\ section_content \in
           {[i \in 1..Len(k) |-> [name |-> k[i], text |-> t[i]]] :
               k \in ScanKeys, t \in [1..4 -> ScanTexts]}
    /\ lastOp = "init"
    /\ ret = [kind |-> "none"]

\* ------------------------------------------------------ specifications
\* the reference list and the section texts: references are added and
\* removed, the user types into the sections, the references are reordered
Next ==
    \/ AddManualReference
    \/ AddReferenceFromDoi
    \/ RemoveReference
    \/ EditText
    \/ Reorder

Spec == Init /\ [][Next]_vars

\* the reference list and the Citation Index: citations are recorded through
\* add_citation, with any section and any id its callers may pass
NextIndex ==
    \/ AddManualReference
    \/ RemoveReference
    \/ AddCitation
    \/ Reorder

SpecIndex == Init /\ [][NextIndex]_vars

\* the rewrite of the section texts on its own, from any written texts and
\* with any mapping
NextRewrite == UpdateCitationsInText

SpecRewrite == InitWritten /\ [][NextRewrite]_vars

\* the adds with any arguments and any outcome of the metadata lookup, in a
\* store whose references are cited and removed
NextStore ==
    \/ AddManualReferenceCall /\ Len(references') <= MaxStored
    \/ AddReferenceFromDoiCall /\ Len(references') <= MaxStored
    \/ RemoveReference
    \/ AddCitation /\ SumLens(citations', DOMAIN citations') <= MaxStoredCites

SpecStore == Init /\ [][NextStore]_vars

\* the operations of the ReferenceManager other than the renumbering
NextStable ==
    \/ AddManualReference /\ Len(references') <= MaxStored
    \/ AddReferenceFromDoi /\ Len(references') <= MaxStored
    \/ RemoveReference
    \/ AddCitation /\ SumLens(citations', DOMAIN citations') <= MaxStoredCites
    \/ GetCitationSummary
    \/ UpdateCitationsInText /\ ret'.map \in Renumberings

SpecStable == Init /\ [][NextStable]_vars

\* a session into which project files are loaded between the operations on
\* the references and the Citation Index
NextProject ==
    \/ AddManualReference /\ Len(references') <= MaxStored
    \/ RemoveReference
    \/ AddCitation /\ SumLens(citations', DOMAIN citations') <= MaxStoredCites
    \/ LoadProject
    \/ Reorder

SpecProject == Init /\ [][NextProject]_vars

\* references are added to a written session and the reorder button pressed
NextScan ==
    \/ AddManualReference /\ Len(references') <= MaxStored
    \/ Reorder

SpecScan == InitScan /\ [][NextScan]_vars

\* ================================================================ claims
\* ---- vocabulary of the claims: first appearance in the rendered text
Reordered == lastOp' = "reorder" /\ ret'.kind = "map"

\* place of section i in the canonical scan: the preferred names in their
\* fixed order, then the other names in the order the input gives them
SectionRank(sc, i) ==
    IF Contains(section_order, sc[i].name)
    THEN CHOOSE k \in 1..Len(section_order) : section_order[k] = sc[i].name
    ELSE Len(section_order) + i

\* every id written in a token: <<section rank, piece, place in token, id>>
Occurrences(sc) ==
    UNION {UNION {{<<SectionRank(sc, i), j, p, sc[i].text[j].ids[p]>> :
                      p \in 1..Len(sc[i].text[j].ids)} :
                  j \in {q \in 1..Len(sc[i].text) : sc[i].text[q].tok}} :
           i \in 1..Len(sc)}

Earlier(o1, o2) ==
    \/ o1[1] < o2[1]
    \/ o1[1] = o2[1] /\ o1[2] < o2[2]
    \/ o1[1] = o2[1] /\ o1[2] = o2[2] /\ o1[3] < o2[3]

CitedIds(sc) == {o[4] : o \in Occurrences(sc)}

FirstOccurrence(sc, x) ==
    CHOOSE o \in Occurrences(sc) :
        /\ o[4] = x
        /\ \A o2 \in Occurrences(sc) : o2[4] = x => (o2 = o \/ Earlier(o, o2))

\* 1 + the number of ids of S that appear before x does
AppearanceRank(sc, S, x) ==
    1 + Cardinality({y \in S : Earlier(FirstOccurrence(sc, y),
                                       FirstOccurrence(sc, x))})

CitedLive(sc, refs) == CitedIds(sc) \cap RefIds(refs)

\* the record that id names, as get_reference_by_id resolves it
Named(refs, id) == refs[get_reference_by_id(refs, id)]

\* C1: after reorder and the rewrite with the returned map, every token
\* stands where it stood and, for each id in it that named a live reference,
\* holds the new id of that reference: the reference carrying that new id has
\* the formatted string and type the old id named.
C1_TokensFollowReferences ==
    [][(Reordered /\ ret'.map # EmptyMap) =>
        /\ Len(section_content') = Len(section_content)
        /\ \A i \in 1..Len(section_content) :
            /\ section_content'[i].name = section_content[i].name
            /\ Len(section_content'[i].text) = Len(section_content[i].text)
            /\ \A j \in 1..Len(section_content[i].text) :
                LET old == section_content[i].text[j]
                    new == section_content'[i].text[j]
                IN  old.tok =>
                    /\ new.tok
                    /\ Len(new.ids) = Len(old.ids)
                    /\ \A p \in 1..Len(old.ids) :
                        old.ids[p] \in RefIds(references) =>
                            /\ old.ids[p] \in DOMAIN ret'.map
                            /\ Contains(new.ids, ret'.map[old.ids[p]])
                            /\ ret'.map[old.ids[p]] \in RefIds(references')
                            /\ Named(references', ret'.map[old.ids[p]]).formatted
                                   = Named(references, old.ids[p]).formatted
                            /\ Named(references', ret'.map[old.ids[p]]).type
                                   = Named(references, old.ids[p]).type
      ]_vars

\* "[2,1] or [abc]" was rewritten to "[1,2] or [abc]" with 2 -> 1, 1 -> 2
C1_Witness ==
    /\ lastOp = "reorder"
    /\ ret.kind = "map"
    /\ ret.map = (2 :> 1 @@ 1 :> 2 @@ 3 :> 3)
    /\ section_content[2].text = <<Token(<<1, 2>>), Literal(" or [abc]")>>
    /\ section_content[1].text = <<Literal("see "), Token(<<3>>)>>
    /\ \E i, j \in 1..Len(references) :
           references[i].formatted # references[j].formatted

\* C2: with sections and references present, the returned map is a
\* bijection from the ids live before the call onto 1..n, n the number of
\* references before the call, and afterwards the live ids are exactly 1..n.
C2_MapIsBijection ==
    [][(Reordered /\ section_content # <<>> /\ references # <<>>) =>
        LET m == ret'.map
            n == Len(references)
        IN  /\ DOMAIN m = RefIds(references)
            /\ {m[x] : x \in DOMAIN m} = 1..n
            /\ \A x, y \in DOMAIN m : m[x] = m[y] => x = y
            /\ RefIds(references') = 1..n
      ]_vars

CountFormatted(refs, f) ==
    Cardinality({i \in 1..Len(refs) : refs[i].formatted = f})

\* C3: reorder keeps the number of references and the multiset of their
\* formatted strings.
C3_NothingLost ==
    [][Reordered =>
        /\ Len(references') = Len(references)
        /\ \A f \in ManualFormatted \cup DoiFormatted :
               CountFormatted(references', f) = CountFormatted(references, f)
      ]_vars

\* the scenario of the specification: sections Intro and Methods, in this
\* order, neither of them a preferred name; references 1, 2, 3
ScenarioSections ==
    <<[name |-> "Intro",
       text |-> <<Literal("finding "), Token(<<3>>), Literal(" and "),
                  Token(<<1, 3>>)>>],
      [name |-> "Methods", text |-> <<Literal("see "), Token(<<2>>)>>]>>

ScenarioReferences ==
    [i \in 1..3 |-> [id |-> i, formatted |-> "m", type |-> "manual"]]

ScenarioMap ==
    compute_reorder(ScenarioSections, ScenarioReferences).id_mapping

\* C4: the j-th distinct live id met when the sections are read in canonical
\* order, each text left to right and each token as written, is mapped to j;
\* the scenario of the specification yields 3 -> 1, 1 -> 2, 2 -> 3.
C4_FirstAppearanceOrder ==
    [][Reordered =>
        /\ \A x \in CitedLive(section_content, references) :
            /\ x \in DOMAIN ret'.map
            /\ ret'.map[x] = AppearanceRank(section_content,
                                 CitedLive(section_content, references), x)
        /\ ScenarioMap = (3 :> 1 @@ 1 :> 2 @@ 2 :> 3)
      ]_vars

\* the second section, "see [3]", was read first, and then in "[2,1]" of the
\* first section 2 came before 1
C4_Witness ==
    /\ lastOp = "reorder"
    /\ ret.kind = "map"
    /\ ret.map = (3 :> 1 @@ 2 :> 2 @@ 1 :> 3)
    /\ section_content[1].text = <<Token(<<2, 3>>), Literal(" or [abc]")>>
    /\ section_content[2].text = <<Literal("see "), Token(<<1>>)>>

\* C5: the references cited nowhere receive k+1..n, k the number of distinct
\* cited live references and n the number of references (the records numbered
\* k+1..n afterwards are the uncited records), and of two of them the one
\* with the smaller id before receives the smaller id after.
C5_UncitedKeepOrder ==
    [][(Reordered /\ references # <<>>) =>
        LET m == ret'.map
            k == Cardinality(CitedLive(section_content, references))
            n == Len(references)
            uncited == RefIds(references) \ CitedIds(section_content)
        IN  /\ uncited \subseteq DOMAIN m
            /\ \A f \in ManualFormatted \cup DoiFormatted :
                   Cardinality({i \in 1..Len(references) :
                                   /\ references[i].id \in uncited
                                   /\ references[i].formatted = f})
                   = Cardinality({j \in 1..Len(references') :
                                     /\ references'[j].id \in (k + 1)..n
                                     /\ references'[j].formatted = f})
            /\ \A x, y \in uncited : x < y => m[x] < m[y]
      ]_vars

\* C6: after reorder and the rewrite, the ids of the texts make their first
\* appearances in the order 1, 2, ..., k, k the number of distinct cited
\* references.
C6_RewrittenTextCounts ==
    [][(Reordered /\ ret'.map # EmptyMap) =>
        /\ Cardinality(CitedIds(section_content'))
               = Cardinality(CitedLive(section_content, references))
        /\ \A x \in CitedIds(section_content') :
               AppearanceRank(section_content', CitedIds(section_content'), x) = x
      ]_vars

\* C7: no two live references share an id, and every id is positive.
C7_IdsUnique ==
    /\ \A i, j \in 1..Len(references) :
           references[i].id = references[j].id => i = j
    /\ \A i \in 1..Len(references) : references[i].id >= 1

MaxOf(S) == IF S = {} THEN 0 ELSE CHOOSE x \in S : \A y \in S : y <= x

\* C8: a successful add returns, and gives the new reference, the largest
\* existing id plus one (1 for an empty list).
C8_AddTakesMaxPlusOne ==
    [][lastOp' \in {"add_manual_reference", "add_reference_from_doi"} =>
        /\ ret'.id = MaxOf(RefIds(references)) + 1
        /\ references'[Len(references')].id = ret'.id
      ]_vars

\* C9: every id of every section's citation list and of the global citation
\* order is the id of a live reference.
C9_IndexIsLive ==
    /\ \A s \in DOMAIN citations :
           \A i \in 1..Len(citations[s]) :
               citations[s][i] \in RefIds(references)
    /\ \A i \in 1..Len(citation_order) :
           citation_order[i] \in RefIds(references)

\* the places of s whose element is not x, ascending
Kept(s, x) == {q \in 1..Len(s) : s[q] # x}

\* t is s with every x taken out and everything else left in its order
IsWithout(t, s, x) ==
    /\ Len(t) = Cardinality(Kept(s, x))
    /\ \A q \in Kept(s, x) :
           t[Cardinality({r \in Kept(s, x) : r <= q})] = s[q]

RefsKept(refs, x) == {q \in 1..Len(refs) : refs[q].id # x}

\* C10: after remove_reference(id), id is in no section's citation list and
\* not in the global order, get_all_references() holds no reference with that
\* id, and the other references and cited ids keep their places.
C10_RemoveCascades ==
    [][lastOp' = "remove_reference" =>
        LET id == ret'.arg
            before == get_all_references(references)
            after == get_all_references(references')
        IN  /\ DOMAIN citations' = DOMAIN citations
            /\ \A s \in DOMAIN citations :
                   IsWithout(citations'[s], citations[s], id)
            /\ IsWithout(citation_order', citation_order, id)
            /\ \A i \in 1..Len(after) : after[i].id # id
            /\ Len(after) = Cardinality(RefsKept(before, id))
            /\ \A q \in RefsKept(before, id) :
                   after[Cardinality({r \in RefsKept(before, id) : r <= q})]
                       = before[q]
      ]_vars

\* a reference cited in two sections was removed; another cited one stays
C10_Witness ==
    /\ lastOp = "remove_reference"
    /\ ret.present
    /\ ret.cited = 2
    /\ citation_order # <<>>
    /\ \E s \in DOMAIN citations : citations[s] # <<>>
    /\ references # <<>>

\* C11: remove_reference(id) returns true exactly when a reference with that
\* id was present; when none was, it returns false and the reference list, the
\* section lists and the global order stay as they were.
C11_RemoveReportsPresence ==
    [][lastOp' = "remove_reference" =>
        /\ ret'.val = (ret'.arg \in RefIds(references))
        /\ (ret'.arg \notin RefIds(references) =>
               UNCHANGED <<references, citations, citation_order>>)
      ]_vars

\* no element of s stands in it twice
NoRepeat(s) == \A i, j \in 1..Len(s) : s[i] = s[j] => i = j

\* C12: after add_citation, remove_reference or reorder every section's
\* citation list holds each id at most once, and a second add_citation with
\* the arguments of the call that just returned changes neither the section
\* lists nor the global order.
C12_AddCitationIdempotent ==
    [][(lastOp' \in {"add_citation", "remove_reference", "reorder"} =>
           \A s \in DOMAIN citations' : NoRepeat(citations'[s]))
       /\ (lastOp' = "add_citation" =>
              \A section_name \in SectionNames, ref_id \in Ids :
                  (/\ citations' = add_citation_citations(
                                       citations, section_name, ref_id)
                   /\ citation_order' = add_citation_order(
                                            citation_order, ref_id))
                  => /\ add_citation_citations(citations', section_name,
                                               ref_id) = citations'
                     /\ add_citation_order(citation_order', ref_id)
                            = citation_order')
      ]_vars

\* an id cited in both sections, one of which cites a second id as well
C12_Witness ==
    /\ lastOp = "add_citation"
    /\ \E s, t \in DOMAIN citations, x, y \in Ids :
           /\ s # t /\ x # y
           /\ Contains(citations[s], x) /\ Contains(citations[t], x)
           /\ Contains(citations[s], y)

\* the ids held by the section lists
SectionCited(cit) ==
    UNION {{cit[s][i] : i \in 1..Len(cit[s])} : s \in DOMAIN cit}

\* the ids held by a list
Elems(s) == {s[i] : i \in 1..Len(s)}

\* C13: after add_citation the global order holds each cited id exactly once
\* and nothing else, and the call either leaves the order as it was (the id
\* was in it already, whatever the section) or appends the one id that was in
\* no section list before: ids stand in the order of their first citation.
C13_FirstCitationOrder ==
    [][lastOp' = "add_citation" =>
        /\ NoRepeat(citation_order')
        /\ Elems(citation_order') = SectionCited(citations')
        /\ LET new == SectionCited(citations') \ Elems(citation_order)
           IN  IF new = {}
               THEN citation_order' = citation_order
               ELSE \E x \in new : /\ new = {x}
                                    /\ citation_order' =
                                           Append(citation_order, x)
      ]_vars

\* the id cited first, in one section, was cited again in the other section
\* after a second id had been cited there, and still stands first
C13_Witness ==
    /\ lastOp = "add_citation"
    /\ Len(citation_order) = 2
    /\ \E s, t \in DOMAIN citations :
           /\ s # t
           /\ citations[s] = <<citation_order[2], citation_order[1]>>
           /\ citations[t] = <<citation_order[1]>>

\* ---- vocabulary of the claims about the rewrite of the texts
Rewritten == lastOp = "update_citations_in_text"

\* what the rewrite is to write for id x: its image, or x when it has none
Mapped(m, x) == IF x \in DOMAIN m THEN m[x] ELSE x

CountIn(s, v) == Cardinality({p \in 1..Len(s) : s[p] = v})

\* the token pieces of the texts: <<section, piece>>
TokenPlaces(sc) ==
    {ij \in UNION {{<<i, j>> : j \in 1..Len(sc[i].text)} : i \in 1..Len(sc)} :
        sc[ij[1]].text[ij[2]].tok}

\* C14: the ids of a rewritten token are the images under id_map of the ids
\* of the token it replaces, each id mapped once and an id without an image
\* kept, with the same multiplicities; the swap 1 -> 2, 2 -> 1 turns
\* "[1] [2]" into "[2] [1]".
C14_MappedOnce ==
    /\ Rewritten =>
           /\ TokenPlaces(section_content) = TokenPlaces(ret.input)
           /\ \A ij \in TokenPlaces(ret.input) :
                  LET old == ret.input[ij[1]].text[ij[2]].ids
                      new == section_content[ij[1]].text[ij[2]].ids
                  IN  \A v \in Elems(new) \cup
                                {Mapped(ret.map, old[p]) : p \in 1..Len(old)} :
                          CountIn(new, v) =
                              Cardinality({p \in 1..Len(old) :
                                              Mapped(ret.map, old[p]) = v})
    /\ sub_text(<<Token(<<1>>), Literal(" "), Token(<<2>>)>>,
                (1 :> 2 @@ 2 :> 1))
           = <<Token(<<2>>), Literal(" "), Token(<<1>>)>>

\* "[1] [2]" became "[2] [1]" under 1 -> 2, 2 -> 1, and "see [3]" kept its 3
C14_Witness ==
    /\ Rewritten
    /\ ret.map = (1 :> 2 @@ 2 :> 1)
    /\ ret.input[1].text = <<Token(<<1>>), Literal(" "), Token(<<2>>)>>
    /\ section_content[1].text = <<Token(<<2>>), Literal(" "), Token(<<1>>)>>
    /\ ret.input[2].text = <<Literal("see "), Token(<<3>>)>>
    /\ section_content[2].text = <<Literal("see "), Token(<<3>>)>>

\* C15: every token of the rewritten texts lists its ids in ascending
\* order, whatever the order in the token it replaces and whatever id_map is
\* (equal ids, which the rewrite keeps, stand side by side).
C15_TokensAscending ==
    Rewritten =>
        \A ij \in TokenPlaces(section_content) :
            LET new == section_content[ij[1]].text[ij[2]].ids
            IN  \A p, q \in 1..Len(new) : p < q => new[p] <= new[q]

\* "[2,1] or [abc]" under 2 -> 3 was written "[1,3] or [abc]", and "(1) [1,3]"
\* in the other section, whose images 1 and 3 stay in order, "(1) [1,3]"
C15_Witness ==
    /\ Rewritten
    /\ ret.map = (2 :> 3)
    /\ ret.input[1].text = <<Token(<<2, 1>>), Literal(" or [abc]")>>
    /\ section_content[1].text = <<Token(<<1, 3>>), Literal(" or [abc]")>>
    /\ ret.input[2].text = <<Literal("(1) "), Token(<<1, 3>>)>>

\* C16: the rewrite returns the same sections in the same order, each with
\* as many pieces as before; a piece that is no token (text between tokens,
\* "[abc]", "[1,]", an unterminated "[1") is returned as it was, and a token
\* is returned as a token in its place.
C16_OnlyTokensChange ==
    Rewritten =>
        /\ Len(section_content) = Len(ret.input)
        /\ \A i \in 1..Len(ret.input) :
            /\ section_content[i].name = ret.input[i].name
            /\ Len(section_content[i].text) = Len(ret.input[i].text)
            /\ \A j \in 1..Len(ret.input[i].text) :
                LET old == ret.input[i].text[j]
                    new == section_content[i].text[j]
                IN  /\ new.tok = old.tok
                    /\ ~old.tok => new = old

\* "[2,2] [1,] [1" under 1 -> 3, 2 -> 3 kept " [1,] [1", and "[2,1] or [abc]"
\* kept " or [abc]", while both tokens changed
C16_Witness ==
    /\ Rewritten
    /\ ret.map = (1 :> 3 @@ 2 :> 3)
    /\ ret.input[1].text = <<Token(<<2, 2>>), Literal(" [1,] [1")>>
    /\ section_content[1].text = <<Token(<<3, 3>>), Literal(" [1,] [1")>>
    /\ ret.input[2].text = <<Token(<<2, 1>>), Literal(" or [abc]")>>
    /\ section_content[2].text = <<Token(<<3, 3>>), Literal(" or [abc]")>>

\* C17: no token of the rewritten texts holds an id twice, whether the token
\* it replaces repeated an id or two of its ids have the same image.
C17_TokensDeduplicated ==
    Rewritten =>
        \A ij \in TokenPlaces(section_content) :
            NoRepeat(section_content[ij[1]].text[ij[2]].ids)

Injective(m) == \A x, y \in DOMAIN m : m[x] = m[y] => x = y

\* the mapping that undoes an injective m
Inverse(m) ==
    [v \in {m[x] : x \in DOMAIN m} |-> CHOOSE x \in DOMAIN m : m[x] = v]

\* the rewrite was called with an injective mapping that has every id of the
\* texts among its keys
RoundTripCase ==
    /\ Rewritten
    /\ Injective(ret.map)
    /\ CitedIds(ret.input) \subseteq DOMAIN ret.map

\* C18 as stated: rewriting the result of a rewrite with the inverse of its
\* mapping gives back the original texts exactly.
C18_RoundTrip ==
    RoundTripCase =>
        update_citations_in_text(section_content, Inverse(ret.map)) = ret.input

\* every token is written as the rewrite renders it: ids ascending, no
\* leading zeros
Canonical(sc) ==
    \A ij \in TokenPlaces(sc) :
        sc[ij[1]].text[ij[2]] = Token(SortIds(sc[ij[1]].text[ij[2]].ids))

\* C18, amended: the round trip gives back the original texts exactly when
\* every token of the original lists its ids in ascending order and writes
\* them as plain decimal numbers.
C18_RoundTripCanonical ==
    (RoundTripCase /\ Canonical(ret.input)) =>
        update_citations_in_text(section_content, Inverse(ret.map)) = ret.input

\* "(1) [1,3]" and "see [3]" were rewritten under 1 -> 2, 3 -> 1 to
\* "(1) [1,2]" and "see [1]"
C18_Witness ==
    /\ RoundTripCase
    /\ ret.map = (1 :> 2 @@ 3 :> 1)
    /\ ret.input[1].text = <<Literal("(1) "), Token(<<1, 3>>)>>
    /\ section_content[1].text = <<Literal("(1) "), Token(<<1, 2>>)>>
    /\ ret.input[2].text = <<Literal("see "), Token(<<3>>)>>
    /\ section_content[2].text = <<Literal("see "), Token(<<1>>)>>

\* C19: a reorder called with no sections, or while no reference exists,
\* returns nothing or the empty map and leaves the reference list, every
\* section's citation list and the global order as they were.
C19_NothingToReorder ==
    [][(lastOp' = "reorder" /\ (section_content = <<>> \/ references = <<>>)) =>
        /\ ret'.kind = "map" => ret'.map = EmptyMap
        /\ UNCHANGED <<references, citations, citation_order>>
      ]_vars

IsIdentity(m) == \A x \in DOMAIN m : m[x] = x

\* the formatted strings in the order get_all_references() returns them
Formatted(refs) ==
    [i \in 1..Len(get_all_references(refs)) |->
        get_all_references(refs)[i].formatted]

\* C20: a reorder that returns an identity map leaves the formatted strings
\* of get_all_references() and their order as they were; with references
\* present and no token in any text the reorder returns a map of every live
\* id, and when the live ids are 1..n that map is the identity.
C20_IdentityIsNoOp ==
    [][Reordered =>
        /\ IsIdentity(ret'.map) =>
               Formatted(references') = Formatted(references)
        /\ (TokenPlaces(section_content) = {} /\ references # <<>>) =>
               /\ DOMAIN ret'.map = RefIds(references)
               /\ RefIds(references) = 1..Len(references) =>
                      IsIdentity(ret'.map)
      ]_vars

\* C21: add_manual_reference with an empty authors, title, journal or year,
\* and add_reference_from_doi with an empty DOI or with a lookup that gave no
\* metadata, return None and leave the reference list, the section lists
\* and the global order as they were.
C21_FailedAddAddsNothing ==
    [][/\ (/\ lastOp' = "add_manual_reference"
           /\ "" \in {ret'.authors, ret'.title, ret'.journal, ret'.year})
          => /\ ret'.kind = "none"
             /\ UNCHANGED <<references, citations, citation_order>>
       /\ (/\ lastOp' = "add_reference_from_doi"
           /\ (ret'.doi \in {"", " "} \/ ret'.lookup # "metadata"))
          => /\ ret'.kind = "none"
             /\ UNCHANGED <<references, citations, citation_order>>
      ]_vars

\* an add without a year was turned down while a cited reference exists
C21_Witness ==
    /\ lastOp = "add_manual_reference"
    /\ ret.kind = "none"
    /\ ret.year = ""
    /\ ret.authors = "x" /\ ret.title = "x" /\ ret.journal = "x"
    /\ Len(references) = 1
    /\ citation_order = <<1>>

\* id and formatted string of the references, in list order
Identity(refs) ==
    [i \in 1..Len(refs) |-> <<refs[i].id, refs[i].formatted>>]

\* C25: add_manual_reference, add_reference_from_doi, add_citation,
\* update_citations_in_text and get_citation_summary leave the id and the
\* formatted string of every reference in the list as they were, and
\* remove_reference(id) those of every reference with another id.
C25_IdsStable ==
    [][/\ lastOp' \in {"add_manual_reference", "add_reference_from_doi",
                       "add_citation", "update_citations_in_text",
                       "get_citation_summary"}
          => /\ Len(references') >= Len(references)
             /\ SubSeq(Identity(references'), 1, Len(references))
                    = Identity(references)
       /\ lastOp' = "remove_reference"
          => /\ Len(references') =
                    Cardinality(RefsKept(references, ret'.arg))
             /\ \A q \in RefsKept(references, ret'.arg) :
                    Identity(references')[
                        Cardinality({r \in RefsKept(references, ret'.arg) :
                                        r <= q})]
                    = Identity(references)[q]
      ]_vars

\* the reference with id 1 was removed and a later add left the first of
\* the two references in the list with the id 2 it had
C25_Witness ==
    /\ lastOp \in {"add_manual_reference", "add_reference_from_doi"}
    /\ ret.kind = "id"
    /\ Len(references) = 2
    /\ references[1].id = 2

\* C22: after a project file is loaded the references and the section
\* citation lists are those of the file, and the global order holds exactly
\* the ids that the loaded section lists hold.
C22_LoadRebuildsIndex ==
    [][lastOp' = "load_project" =>
        /\ references' = ret'.data.references
        /\ citations' = ret'.data.citations
        /\ Elems(citation_order') = SectionCited(citations')
      ]_vars

\* C23: reorder scans the preferred section names in their fixed order and
\* then the other names in the order the input gives them: of two cited live
\* ids, the one whose first occurrence comes earlier in that scan gets the
\* smaller new id, whatever the texts and the spelling of the names.
C23_ScanOrder ==
    [][Reordered =>
        \A x, y \in CitedLive(section_content, references) :
            ret'.map[x] < ret'.map[y] <=>
                Earlier(FirstOccurrence(section_content, x),
                        FirstOccurrence(section_content, y))
      ]_vars

\* reorder has run on a session whose dict gives a name outside the preferred
\* list first and a preferred name after it, each citing another reference:
\* the preferred section was scanned first
C23_Witness ==
    /\ lastOp = "reorder"
    /\ Keys(section_content) =
           <<"Financiamento", "Discussão", "Resultados",
             "Registro e Protocolo">>
    /\ ret.kind = "map"
    /\ ret.map = (1 :> 2) @@ (2 :> 1)
    /\ section_content[1].text = <<Token(<<2>>)>>
    /\ section_content[2].text = <<>>
    /\ section_content[3].text = <<Token(<<1>>)>>
    /\ section_content[4].text = <<>>

\* the list s read through m: every id that has an image replaced by it, in
\* place, and the ids without one left out
ImageOf(s, m) ==
    LET mapped == SelectSeq(s, LAMBDA x : x \in DOMAIN m)
    IN  [i \in 1..Len(mapped) |-> m[mapped[i]]]

\* new_refs holds the records of refs, each carrying the image of its id
RenumberedBy(new_refs, refs, m) ==
    /\ Len(new_refs) = Len(refs)
    /\ \E p \in Permutations(1..Len(refs)) :
           \A i \in 1..Len(refs) :
               /\ refs[i].id \in DOMAIN m
               /\ new_refs[p[i]] = [refs[i] EXCEPT !.id = m[refs[i].id]]

\* C24: a reorder that returns a map has applied that map to the reference
\* list, to every section's citation list and to the global order; one that
\* returns None has left all three as they were.
C24_AllOrNothing ==
    [][lastOp' = "reorder" =>
        IF ret'.kind = "map"
        THEN /\ RenumberedBy(references', references, ret'.map)
             /\ DOMAIN citations' = DOMAIN citations
             /\ \A s \in DOMAIN citations :
                    citations'[s] = ImageOf(citations[s], ret'.map)
             /\ citation_order' = ImageOf(citation_order, ret'.map)
        ELSE UNCHANGED <<references, citations, citation_order>>
      ]_vars

\* every id of the Citation Index names a reference of the list
IndexLive(cit, order, refs) ==
    SectionCited(cit) \cup Elems(order) \subseteq RefIds(refs)

\* t is s with every id replaced by its image, place by place
IsImage(t, s, m) ==
    /\ Len(t) = Len(s)
    /\ \A i \in 1..Len(s) : s[i] \in DOMAIN m /\ t[i] = m[s[i]]

\* C26: when every id in the Citation Index is live, reorder puts in place of
\* each section's citation list and of the global order the list of the
\* images of its ids under the returned map, in the same places.
C26_ListsRemappedInPlace ==
    [][(Reordered /\ IndexLive(citations, citation_order, references)) =>
        /\ DOMAIN citations' = DOMAIN citations
        /\ \A s \in DOMAIN citations :
               IsImage(citations'[s], citations[s], ret'.map)
        /\ IsImage(citation_order', citation_order, ret'.map)
      ]_vars

\* reorder has swapped ids 1 and 2, cited 2 before 1 in the text, and the
\* section list that held 1, 2 holds 2, 1: the images in place, not the new
\* ids in the order of the text
C26_Witness ==
    /\ lastOp = "reorder"
    /\ ret.kind = "map"
    /\ ret.map = (1 :> 2) @@ (2 :> 1)
    /\ section_content # <<>>
    /\ section_content[Len(section_content)].text =
           <<Token(<<1, 2>>), Literal(" or [abc]")>>
    /\ citations = (SECTIONS[2] :> <<2, 1>>)
    /\ RefIds(references) = {1, 2}

\* C28: in every state reached through add_citation, remove_reference and
\* reorder (and the adds that give them references to work on), the ids of
\* the global order are exactly the ids held by the section citation lists.
C28_OrderCoversSections ==
    Elems(citation_order) = SectionCited(citations)

\* a cited reference has been removed from an index that cited another one
\* in both sections: the other id is left, once in the global order
C28_Witness ==
    /\ lastOp = "remove_reference"
    /\ ret.present
    /\ ret.cited > 0
    /\ Len(citation_order) = 1
    /\ SumLens(citations, DOMAIN citations) = 2

\* the ids written in token ij of the texts
TokenIds(sc, ij) == Elems(sc[ij[1]].text[ij[2]].ids)

\* C30: an id written in a token that names no reference of the list before
\* reorder is still written in that token after reorder and the rewrite, and
\* still names no reference of the list.
C30_DanglingStaysDangling ==
    [][Reordered =>
        \A ij \in TokenPlaces(section_content) :
            \A x \in TokenIds(section_content, ij) \ RefIds(references) :
                /\ x \in TokenIds(section_content', ij)
                /\ x \notin RefIds(references')
      ]_vars

\* C29: when a reorder with its rewrite has run on texts in which every id
\* named a reference, a second reorder with its rewrite that follows at once
\* returns the identity map on the ids of the list and leaves the reference
\* list, the Citation Index and the section texts as they are.
C29_ReorderIdempotent ==
    [][(/\ lastOp = "reorder" /\ ret.kind = "map" /\ ret.skipped = {}
        /\ lastOp' = "reorder") =>
        /\ ret'.kind = "map"
        /\ DOMAIN ret'.map = RefIds(references)
        /\ IsIdentity(ret'.map)
        /\ UNCHANGED <<references, citations, citation_order,
                       section_content>>
      ]_vars

\* the second of two reorders in a row: the first swapped ids 1 and 2 in the
\* list, in the section list and in the text, the second returned the
\* identity and left them so
C29_Witness ==
    /\ lastOp = "reorder"
    /\ ret.kind = "map"
    /\ ret.map = (1 :> 1) @@ (2 :> 2)
    /\ ret.skipped = {}
    /\ section_content # <<>>
    /\ section_content[Len(section_content)].text =
           <<Token(<<1, 2>>), Literal(" or [abc]")>>
    /\ citations = (SECTIONS[2] :> <<2, 1>>)
    /\ citation_order = <<>>
    /\ Len(references) = 2

\* ---- what the texts and the reference list alone say of a renumbering
\* the places of the list whose id is written in no token
UncitedPlaces(sc, refs) ==
    {i \in 1..Len(refs) : refs[i].id \notin CitedIds(sc)}

\* the new id of x: for a cited id its rank of first appearance among the
\* cited ids that name a reference, for another one its place among the
\* uncited records, counted after the cited ones (the last record with that
\* id decides)
MapFromTexts(sc, refs) ==
    LET cited == CitedLive(sc, refs)
    IN  [x \in RefIds(refs) |->
            IF x \in cited THEN AppearanceRank(sc, cited, x)
            ELSE Cardinality(cited) +
                 Cardinality({i \in UncitedPlaces(sc, refs) :
                     \E j \in i..Len(refs) : refs[j].id = x})]

\* the renumbered list: the cited records in the order of first appearance,
\* then the uncited records in list order, numbered from 1
ListFromTexts(sc, refs) ==
    LET cited == CitedLive(sc, refs)
        k == Cardinality(cited)
        places == UncitedPlaces(sc, refs)
    IN  [n \in 1..(k + Cardinality(places)) |->
            IF n <= k
            THEN [Named(refs, CHOOSE x \in cited :
                                  AppearanceRank(sc, cited, x) = n)
                     EXCEPT !.id = n]
            ELSE [refs[CHOOSE i \in places :
                           Cardinality({j \in places : j <= i}) = n - k]
                     EXCEPT !.id = n]]

\* C27: the map reorder returns and the renumbered list are what the section
\* texts and the reference list alone determine, whatever the section
\* citation lists and the global order hold: sessions that agree on texts
\* and references obtain the same map and the same list.
C27_MapFromTextsOnly ==
    [][Reordered =>
        /\ ret'.map = MapFromTexts(section_content, references)
        /\ references' = ListFromTexts(section_content, references)
      ]_vars

\* reorder has swapped ids 1 and 2 after the text, which cited 2 first, in a
\* session whose section list held 1 before 2 and whose global order held
\* 1 only
C27_Witness ==
    /\ lastOp = "reorder"
    /\ ret.kind = "map"
    /\ ret.map = (1 :> 2) @@ (2 :> 1)
    /\ citations = (SECTIONS[2] :> <<2, 1>>)
    /\ citation_order = <<2>>
    /\ Len(references) = 2

====
